---------------------------- MODULE Spec2Model ----------------------------
(***************************************************************************)
(* A model of gitobi: a document store whose records are JSON files inside *)
(* a git working directory.                                                *)
(*                                                                         *)
(*   - GitStore (src/src/repo_store.rs): initialize / pull / push /        *)
(*     commit / clean over one working directory, and the clone command    *)
(*     with its auth header.                                               *)
(*   - JsonDocument (src/src/repo_document.rs): read / write / update /    *)
(*     delete / exists / copy / remove of one file, with the dotted-path   *)
(*     helpers update_json_value and delete_json_key.                      *)
(*                                                                         *)
(* Text is a sequence of character codes where the code builds it          *)
(* (headers, base64) and a sequence of one-character strings where the     *)
(* code splits it (dotted paths).                                          *)
(***************************************************************************)
EXTENDS Integers, Sequences, FiniteSets, TLC

VARIABLES
    auth,       \* GitStore.auth: [user, password, token : Option, insecure]
    branch,     \* GitStore.branch : Option
    dirExists,  \* fs::exists(repo_path)
    workTree,   \* repo_path holds a git checkout (what rev-parse probes)
    identity,   \* user.name / user.email are set in the checkout's config
    unmerged,   \* the checkout is in the middle of a conflicted merge
    head,       \* the last commit's tree: path -> file content
    index,      \* the staging area: path -> file content
    wt,         \* the files of the directory: path -> file content
    cloneArgs,  \* the options of the most recent `git clone` command
    lastOp,     \* the most recent call: its name, inputs, steps and result
    calls,      \* number of document calls made (bounded exploration)
    threads     \* update / delete calls in flight: position and value read

vars == << auth, branch, dirExists, workTree, identity, unmerged,
           head, index, wt, cloneArgs, lastOp, calls, threads >>

dirVars == << dirExists, workTree, identity, unmerged, head, index, wt >>

(***************************************************************************)
(* Bounds of the exploration.                                              *)
(***************************************************************************)
MaxCredLen == 2   \* credentials are the prefixes of length 1..MaxCredLen
MaxCalls == 2     \* document calls per behaviour of the document spec

(***************************************************************************)
(* Option<T>                                                               *)
(***************************************************************************)
None == [some |-> FALSE, val |-> << >>]

Some(v) == [some |-> TRUE, val |-> v]

(***************************************************************************)
(* Results.  Ok(()) or Err(kind(cause(...))): the error is the sequence of *)
(* kinds from the outermost wrapper to the underlying cause.  "Panic" is   *)
(* an unwinding caller (an unwrap() on an Err).                            *)
(***************************************************************************)
Ok == [status |-> "Ok", err |-> << >>]

Err(kinds) == [status |-> "Err", err |-> kinds]

Panic == [status |-> "Panic", err |-> << >>]

\* Box::new(e) inside a new kind: RepoStoreError::K(Box::new(e)).
Wrap(kind, r) == [status |-> "Err", err |-> <<kind>> \o r.err]

(***************************************************************************)
(* Text as character codes.                                                *)
(***************************************************************************)
BasicPrefix ==   \* "Authorization: Basic "
    << 65, 117, 116, 104, 111, 114, 105, 122, 97, 116, 105, 111, 110, 58, 32,
       66, 97, 115, 105, 99, 32 >>

BearerPrefix ==  \* "Authorization: Bearer  " as the format string has it
    << 65, 117, 116, 104, 111, 114, 105, 122, 97, 116, 105, 111, 110, 58, 32,
       66, 101, 97, 114, 101, 114, 32, 32 >>

Colon == << 58 >>

\* The alphabet of BASE64_STANDARD: A-Z a-z 0-9 + /
B64Alphabet ==
    << 65, 66, 67, 68, 69, 70, 71, 72, 73, 74, 75, 76, 77, 78, 79, 80, 81, 82,
       83, 84, 85, 86, 87, 88, 89, 90, 97, 98, 99, 100, 101, 102, 103, 104,
       105, 106, 107, 108, 109, 110, 111, 112, 113, 114, 115, 116, 117, 118,
       119, 120, 121, 122, 48, 49, 50, 51, 52, 53, 54, 55, 56, 57, 43, 47 >>

B64Pad == 61  \* '='

B64Char(n) == B64Alphabet[n + 1]

\* BASE64_STANDARD.encode: 3 bytes -> 4 characters, '=' padded.
RECURSIVE Base64Encode(_)
Base64Encode(bytes) ==
    IF Len(bytes) = 0 THEN << >>
    ELSE IF Len(bytes) = 1 THEN
        LET n == bytes[1] * 65536
        IN  << B64Char(n \div 262144), B64Char((n \div 4096) % 64),
               B64Pad, B64Pad >>
    ELSE IF Len(bytes) = 2 THEN
        LET n == bytes[1] * 65536 + bytes[2] * 256
        IN  << B64Char(n \div 262144), B64Char((n \div 4096) % 64),
               B64Char((n \div 64) % 64), B64Pad >>
    ELSE
        LET n == bytes[1] * 65536 + bytes[2] * 256 + bytes[3]
        IN  << B64Char(n \div 262144), B64Char((n \div 4096) % 64),
               B64Char((n \div 64) % 64), B64Char(n % 64) >>
            \o Base64Encode(SubSeq(bytes, 4, Len(bytes)))

(***************************************************************************)
(* The credentials a store may be constructed with.                        *)
(***************************************************************************)
UserText == << 97, 108, 105, 99, 101 >>            \* "alice"

PasswordText == << 115, 51, 99, 114, 101, 116 >>   \* "s3cret"

TokenText == << 103, 104, 112, 95, 116, 111, 107 >> \* "ghp_tok"

BranchText == << 109, 97, 105, 110 >>                \* "main"

Prefixes(text) == { SubSeq(text, 1, n) : n \in 1..MaxCredLen }

OptionOf(S) == {None} \cup { Some(s) : s \in S }

GitAuth ==
    [ user     : OptionOf(Prefixes(UserText)),
      password : OptionOf(Prefixes(PasswordText)),
      token    : OptionOf(Prefixes(TokenText)),
      insecure : BOOLEAN ]

Anonymous == [user |-> None, password |-> None, token |-> None, insecure |-> FALSE]

\* GitStore::build_auth_header
build_auth_header(a) ==
    IF ~a.token.some
    THEN IF a.user.some /\ a.password.some
         THEN Some(BasicPrefix
                   \o Base64Encode(a.user.val \o Colon \o a.password.val))
         ELSE None
    ELSE Some(BearerPrefix \o a.token.val)

\* The options GitStore::clone gives the clone command, in order.
CloneOptions(a, b) ==
    << [name |-> "repository", value |-> None],
       [name |-> "directory", value |-> None] >>
    \o (IF b.some THEN << [name |-> "branch", value |-> b] >> ELSE << >>)
    \o (IF build_auth_header(a).some
        THEN << [name |-> "http.extraHeader", value |-> build_auth_header(a)] >>
        ELSE << >>)
    \o (IF a.insecure
        THEN << [name |-> "http.sslVerify=false", value |-> None] >>
        ELSE << >>)


(***************************************************************************)
(* JSON values (serde_json::Value) and file contents.                      *)
(***************************************************************************)
JNull == [t |-> "null"]

JNum(n) == [t |-> "num", n |-> n]

JArr(items) == [t |-> "arr", items |-> items]

JObj(m) == [t |-> "obj", map |-> m]

EmptyMap == << >>   \* Map::new()

is_object(v) == v.t = "obj"

\* A file: missing, text that is not JSON, or the text of a JSON value.
Absent == [kind |-> "absent"]

Garbage == [kind |-> "text"]

Json(v) == [kind |-> "json", value |-> v]

(***************************************************************************)
(* The working directory.  Ignored is what the checkout's ignore rules     *)
(* match.                                                                  *)
(***************************************************************************)
Paths == {"doc.json", "new.json", "cache.tmp"}

Ignored == {"cache.tmp"}

EmptyTree == [p \in Paths |-> Absent]

AbsentDir ==
    [ exists |-> FALSE, workTree |-> FALSE, identity |-> FALSE,
      unmerged |-> FALSE, head |-> EmptyTree, index |-> EmptyTree,
      wt |-> EmptyTree ]

EmptyDir == [AbsentDir EXCEPT !.exists = TRUE]

CurDir ==
    [ exists |-> dirExists, workTree |-> workTree, identity |-> identity,
      unmerged |-> unmerged, head |-> head, index |-> index, wt |-> wt ]

SetDir(d) ==
    /\ dirExists' = d.exists
    /\ workTree' = d.workTree
    /\ identity' = d.identity
    /\ unmerged' = d.unmerged
    /\ head' = d.head
    /\ index' = d.index
    /\ wt' = d.wt

Step(name, ok) == [step |-> name, ok |-> ok]

(***************************************************************************)
(* GitStore: the private helpers.  Each takes the directory and the        *)
(* outcome the environment gives the subprocess or the file system call,   *)
(* and returns the result, the directory after it and the steps it ran.    *)
(***************************************************************************)

\* GitStore::clone: `git clone <url> <dir> [options]` run inside the directory.
\* git refuses a destination that is not empty and removes what it created
\* when it fails.
clone(d, ok, tree) ==
    IF ok /\ d.exists /\ d.wt = EmptyTree
    THEN [ res |-> Ok,
           dir |-> [ exists |-> TRUE, workTree |-> TRUE, identity |-> FALSE,
                     unmerged |-> FALSE, head |-> tree, index |-> tree,
                     wt |-> tree ] ]
    ELSE [ res |-> Err(<<"Clone", "WrapError">>), dir |-> d ]

\* GitStore::set_repo_config: `git config user.email .. user.name ..`
set_repo_config(d, ok) ==
    IF ok /\ d.workTree
    THEN [ res |-> Ok, dir |-> [d EXCEPT !.identity = TRUE] ]
    ELSE [ res |-> Err(<<"Initialize", "WrapError">>), dir |-> d ]

\* A probe that only finds the directory, whatever it holds.
is_valid_repo_exists_only(d, spawned) == spawned /\ d.exists

\* GitStore::is_valid_repo: `git rev-parse --is-inside-work-tree` prints
\* "true"; a command that fails counts as not valid.
is_valid_repo(d, spawned) == spawned /\ d.workTree

\* create_dir_and_clone that does not return on a failed clone.
create_dir_and_clone_unchecked(d, in) ==
    IF ~in.mkOk
    THEN [ res |-> Err(<<"Initialize", "io">>), dir |-> d,
           steps |-> << Step("create_dir_all", FALSE) >> ]
    ELSE
      LET d1 == [d EXCEPT !.exists = TRUE]
          c  == clone(d1, in.cloneOk, in.tree)
          g  == set_repo_config(c.dir, in.cfgOk)
      IN  [ res |-> g.res, dir |-> g.dir,
            steps |-> << Step("create_dir_all", TRUE),
                         Step("clone", c.res.status = "Ok"),
                         Step("config", g.res.status = "Ok") >> ]

\* GitStore::create_dir_and_clone
create_dir_and_clone(d, in) ==
    IF ~in.mkOk
    THEN [ res |-> Err(<<"Initialize", "io">>), dir |-> d,
           steps |-> << Step("create_dir_all", FALSE) >> ]
    ELSE
      LET d1 == [d EXCEPT !.exists = TRUE]
          c  == clone(d1, in.cloneOk, in.tree)
      IN  IF c.res.status # "Ok"
          THEN [ res |-> Wrap("Initialize", c.res), dir |-> c.dir,
                 steps |-> << Step("create_dir_all", TRUE),
                              Step("clone", FALSE) >> ]
          ELSE
            LET g == set_repo_config(c.dir, in.cfgOk)
            IN  [ res |-> g.res, dir |-> g.dir,
                  steps |-> << Step("create_dir_all", TRUE),
                               Step("clone", TRUE),
                               Step("config", g.res.status = "Ok") >> ]

Removed == [ok |-> TRUE, keep |-> {}, git |-> FALSE]

\* fs::remove_dir_all: all of the directory, or on failure the files of
\* rm.keep, with or without the checkout's metadata.
remove_dir_all(d, rm) ==
    IF rm.ok THEN AbsentDir
    ELSE LET left == [p \in Paths |-> IF p \in rm.keep THEN d.wt[p] ELSE Absent]
         IN  IF rm.git /\ d.workTree
             THEN [d EXCEPT !.wt = left]
             ELSE [EmptyDir EXCEPT !.wt = left]

\* initialize without the removal of an invalid directory.
initialize_no_removal(d, in) ==
    IF ~in.existsOk
    THEN [ res |-> Err(<<"Initialize", "io">>), dir |-> d,
           steps |-> << Step("exists", FALSE) >> ]
    ELSE IF d.exists /\ is_valid_repo(d, in.probeOk)
    THEN [ res |-> Ok, dir |-> d,
           steps |-> << Step("exists", TRUE), Step("rev_parse", TRUE) >> ]
    ELSE LET r == create_dir_and_clone(d, in)
         IN  [ res |-> r.res, dir |-> r.dir,
               steps |-> (IF d.exists
                          THEN << Step("exists", TRUE), Step("rev_parse", FALSE) >>
                          ELSE << Step("exists", TRUE) >>) \o r.steps ]

\* initialize without the validity probe: every existing directory is
\* removed and cloned again.
initialize_no_probe(d, in) ==
    IF ~in.existsOk
    THEN [ res |-> Err(<<"Initialize", "io">>), dir |-> d,
           steps |-> << Step("exists", FALSE) >> ]
    ELSE IF d.exists /\ ~in.rm.ok
    THEN [ res |-> Err(<<"Initialize", "io">>),
           dir |-> remove_dir_all(d, in.rm),
           steps |-> << Step("exists", TRUE), Step("remove_dir_all", FALSE) >> ]
    ELSE LET r == create_dir_and_clone(remove_dir_all(d, Removed), in)
         IN  [ res |-> r.res, dir |-> r.dir,
               steps |-> (IF d.exists
                          THEN << Step("exists", TRUE),
                                  Step("remove_dir_all", TRUE) >>
                          ELSE << Step("exists", TRUE) >>) \o r.steps ]

\* GitStore::initialize (impl RepoStore)
initialize(d, in) ==
    IF ~in.existsOk
    THEN [ res |-> Err(<<"Initialize", "io">>), dir |-> d,
           steps |-> << Step("exists", FALSE) >> ]
    ELSE IF d.exists
    THEN IF is_valid_repo(d, in.probeOk)
         THEN [ res |-> Ok, dir |-> d,
                steps |-> << Step("exists", TRUE), Step("rev_parse", TRUE) >> ]
         ELSE IF ~in.rm.ok
         THEN [ res |-> Err(<<"Initialize", "io">>),
                dir |-> remove_dir_all(d, in.rm),
                steps |-> << Step("exists", TRUE), Step("rev_parse", FALSE),
                             Step("remove_dir_all", FALSE) >> ]
         ELSE LET r == create_dir_and_clone(remove_dir_all(d, in.rm), in)
              IN  [ res |-> r.res, dir |-> r.dir,
                    steps |-> << Step("exists", TRUE), Step("rev_parse", FALSE),
                                 Step("remove_dir_all", TRUE) >> \o r.steps ]
    ELSE LET r == create_dir_and_clone(d, in)
         IN  [ res |-> r.res, dir |-> r.dir,
               steps |-> << Step("exists", TRUE) >> \o r.steps ]

\* GitStore::pull: `git pull [--rebase]`.  The remote brings `change.to` at
\* `change.path`; git integrates it only into a path without local changes,
\* and a conflict elsewhere leaves the merged part staged and the merge open.
PullAble(d, change) ==
    /\ d.workTree
    /\ ~d.unmerged
    /\ d.wt[change.path] = d.head[change.path]
    /\ d.index[change.path] = d.head[change.path]

\* Whether the `git pull` subprocess exits with success.
pull_runs(d, outcome, change) == outcome = "ok" /\ PullAble(d, change)

pull(d, rebase, outcome, change) ==
    LET p == change.path
    IN  IF pull_runs(d, outcome, change)
        THEN [ res |-> Ok,
               dir |-> [d EXCEPT !.head[p] = change.to, !.index[p] = change.to,
                                 !.wt[p] = change.to] ]
        ELSE IF outcome = "conflict" /\ PullAble(d, change)
        THEN [ res |-> Err(<<"Pull", "WrapError">>),
               dir |-> [d EXCEPT !.index[p] = change.to, !.wt[p] = change.to,
                                 !.unmerged = TRUE] ]
        ELSE [ res |-> Err(<<"Pull", "WrapError">>), dir |-> d ]

\* push reporting its failure under the kind of pull.
push_as_pull(d, ok) ==
    IF ok /\ d.workTree
    THEN [ res |-> Ok, dir |-> d ]
    ELSE [ res |-> Err(<<"Pull", "WrapError">>), dir |-> d ]

\* Whether the `git push` subprocess exits with success.
push_runs(d, ok) == ok /\ d.workTree

\* GitStore::push: `git push`
push(d, ok) ==
    IF push_runs(d, ok)
    THEN [ res |-> Ok, dir |-> d ]
    ELSE [ res |-> Err(<<"Push", "WrapError">>), dir |-> d ]

\* What `git commit --all` stages: the modified and the deleted files among
\* those git already tracks; a file git was never told about is left alone.
StagedByAll(d) ==
    [p \in Paths |-> IF d.index[p] # Absent THEN d.wt[p] ELSE d.index[p]]

\* GitStore::commit: `git commit --all --message <msg>`; with nothing to
\* commit, or a merge still open, git exits with an error and stages nothing.
commit_runs(d, ok) ==
    ok /\ d.workTree /\ ~d.unmerged /\ StagedByAll(d) # d.head

commit(d, ok) ==
    IF commit_runs(d, ok)
    THEN [ res |-> Ok,
           dir |-> [d EXCEPT !.head = StagedByAll(d), !.index = StagedByAll(d)] ]
    ELSE [ res |-> Err(<<"Commit", "WrapError">>), dir |-> d ]

\* `git reset`: the index back to the last commit, an open merge dropped.
git_reset(d) == [d EXCEPT !.index = d.head, !.unmerged = FALSE]

\* `git checkout .`: every tracked path restored from the index.
git_checkout_all(d) ==
    [d EXCEPT !.wt = [p \in Paths |->
                        IF d.index[p] # Absent THEN d.index[p] ELSE d.wt[p]]]

\* `git clean --force -d` without -x: what the ignore rules match stays.
CleanRemovesUnignored(d) == { p \in Paths \ Ignored : d.index[p] = Absent }

\* The paths `git clean --force -d -x` removes: all that are not tracked,
\* those the ignore rules match included (-x).
CleanRemoves(d) == { p \in Paths : d.index[p] = Absent }

git_clean(d) ==
    [d EXCEPT !.wt = [p \in Paths |->
                        IF p \in CleanRemoves(d) THEN Absent ELSE d.wt[p]]]

\* GitStore::clean: batch!(reset, checkout ., clean -f -d -x), in this
\* order, stopping at the first command that fails.
clean(d, in) ==
    IF ~(in.resetOk /\ d.workTree)
    THEN [ res |-> Err(<<"Clean", "WrapError">>), dir |-> d,
           steps |-> << Step("reset", FALSE) >> ]
    ELSE IF ~in.checkoutOk
    THEN [ res |-> Err(<<"Clean", "WrapError">>), dir |-> git_reset(d),
           steps |-> << Step("reset", TRUE), Step("checkout", FALSE) >> ]
    ELSE IF ~in.cleanOk
    THEN [ res |-> Err(<<"Clean", "WrapError">>),
           dir |-> git_checkout_all(git_reset(d)),
           steps |-> << Step("reset", TRUE), Step("checkout", TRUE),
                        Step("clean", FALSE) >> ]
    ELSE [ res |-> Ok,
           dir |-> git_clean(git_checkout_all(git_reset(d))),
           steps |-> << Step("reset", TRUE), Step("checkout", TRUE),
                        Step("clean", TRUE) >> ]

(***************************************************************************)
(* The inputs of the store's operations: what the environment answers.     *)
(***************************************************************************)
\* The documents the store specification writes.
StoreDocs == { JObj(EmptyMap), JObj([k \in {<<"a">>} |-> JNum(1)]) }

\* The paths the remote repository holds, and the trees it may hold.
RemotePaths == {"doc.json"}

RemoteTrees ==
    { [p \in Paths |-> IF p \in RemotePaths THEN Json(v) ELSE Absent] :
        v \in StoreDocs }

RemoteChanges ==
    [ path : RemotePaths, to : {Absent} \cup { Json(v) : v \in StoreDocs } ]

\* How fs::remove_dir_all may end: done, or failed with nothing, a part or
\* all but the directory itself removed.
Removals ==
    { [ok |-> TRUE, keep |-> {}, git |-> FALSE] }
    \cup [ ok : {FALSE}, keep : {Paths, {"doc.json"}, {}}, git : BOOLEAN ]

\* One call of initialize: the step that fails (a call ends at its first
\* failure, so at most one does), whether the probe command itself runs,
\* and what the remote holds.
InitInput(failAt, probeOk, rm, tree) ==
    [ existsOk |-> failAt # "exists", probeOk |-> probeOk,
      rm |-> IF failAt = "remove" THEN rm ELSE Removed,
      mkOk |-> failAt # "mkdir", cloneOk |-> failAt # "clone",
      cfgOk |-> failAt # "config", tree |-> tree ]

\* The remote's tree matters only to a call whose clone succeeds.
AnyTree == CHOOSE t \in RemoteTrees : TRUE

InitInputs ==
    { InitInput(f, po, Removed, t) :
        f \in {"none", "config"}, po \in BOOLEAN, t \in RemoteTrees }
    \cup { InitInput(f, po, Removed, AnyTree) :
             f \in {"exists", "mkdir", "clone"}, po \in BOOLEAN }
    \cup { InitInput("remove", po, rm, AnyTree) :
             po \in BOOLEAN, rm \in Removals \ {Removed} }

CleanInputs == [ resetOk : BOOLEAN, checkoutOk : BOOLEAN, cleanOk : BOOLEAN ]

\* How initialize finds the directory: what fs::exists and the probe answer.
DirClass(d, in) ==
    IF ~in.existsOk THEN "unknown"
    ELSE IF ~d.exists THEN "absent"
    ELSE IF is_valid_repo(d, in.probeOk) THEN "valid" ELSE "invalid"

Ran(steps, name) == \E i \in DOMAIN steps : steps[i].step = name

(***************************************************************************)
(* The store's operations (impl RepoStore for GitStore).                   *)
(***************************************************************************)
Initialize ==
    \E in \in InitInputs :
        LET r == initialize(CurDir, in)
        IN  /\ SetDir(r.dir)
            /\ cloneArgs' = IF Ran(r.steps, "clone")
                            THEN CloneOptions(auth, branch) ELSE cloneArgs
            /\ lastOp' = [ op |-> "initialize", status |-> r.res.status,
                           err |-> r.res.err, steps |-> r.steps,
                           pre |-> DirClass(CurDir, in), had |-> wt ]
            /\ UNCHANGED << threads, auth, branch, calls >>

Pull ==
    \E rebase \in BOOLEAN, outcome \in {"ok", "fail", "conflict"},
       change \in RemoteChanges :
        LET r == pull(CurDir, rebase, outcome, change)
        IN  /\ SetDir(r.dir)
            /\ lastOp' = [ op |-> "pull", status |-> r.res.status,
                           err |-> r.res.err,
                           steps |-> << Step("pull",
                                         pull_runs(CurDir, outcome, change)) >> ]
            /\ UNCHANGED << threads, auth, branch, cloneArgs, calls >>

Push ==
    \E ok \in BOOLEAN :
        LET r == push(CurDir, ok)
        IN  /\ SetDir(r.dir)
            /\ lastOp' = [ op |-> "push", status |-> r.res.status,
                           err |-> r.res.err,
                           steps |-> << Step("push", push_runs(CurDir, ok)) >> ]
            /\ UNCHANGED << threads, auth, branch, cloneArgs, calls >>

Commit ==
    \E ok \in BOOLEAN :
        LET r == commit(CurDir, ok)
        IN  /\ SetDir(r.dir)
            /\ lastOp' = [ op |-> "commit", status |-> r.res.status,
                           err |-> r.res.err,
                           steps |-> << Step("commit", commit_runs(CurDir, ok)) >>,
                           had |-> wt ]
            /\ UNCHANGED << threads, auth, branch, cloneArgs, calls >>

Clean ==
    \E in \in CleanInputs :
        LET r == clean(CurDir, in)
        IN  /\ SetDir(r.dir)
            /\ lastOp' = [ op |-> "clean", status |-> r.res.status,
                           err |-> r.res.err, steps |-> r.steps, had |-> wt ]
            /\ UNCHANGED << threads, auth, branch, cloneArgs, calls >>

(***************************************************************************)
(* Dotted paths.  A key is a sequence of one-character strings; its        *)
(* segments are the object keys.                                           *)
(***************************************************************************)
HasDot(s) == \E i \in 1..Len(s) : s[i] = "."

FirstDot(s) == CHOOSE i \in 1..Len(s) : s[i] = "." /\ \A j \in 1..(i - 1) : s[j] # "."

\* key.split('.').collect(): "a.b" -> ["a", "b"], "a." -> ["a", ""], "" -> [""]
RECURSIVE split(_)
split(s) ==
    IF ~HasDot(s) THEN << s >>
    ELSE << SubSeq(s, 1, FirstDot(s) - 1) >>
         \o split(SubSeq(s, FirstDot(s) + 1, Len(s)))

\* Map::insert
MapInsert(m, k, v) == [x \in DOMAIN m \cup {k} |-> IF x = k THEN v ELSE m[x]]

\* Map::remove
MapRemove(m, k) == [x \in DOMAIN m \ {k} |-> m[x]]

\* The loop of update_json_value over the segments, `build` being the
\* object it has descended into.
RECURSIVE UpdateWalk(_, _, _)
UpdateWalk(build, keys, value) ==
    LET key == Head(keys)
        last == Len(keys) = 1
    IN  IF key \in DOMAIN build
        THEN IF last
             THEN [build EXCEPT ![key] = value]
             ELSE LET child == IF ~is_object(build[key]) THEN EmptyMap
                               ELSE build[key].map
                  IN  [build EXCEPT
                         ![key] = JObj(UpdateWalk(child, Tail(keys), value))]
        ELSE IF last
             THEN MapInsert(build, key, value)
             ELSE MapInsert(build, key,
                            JObj(UpdateWalk(EmptyMap, Tail(keys), value)))

\* The loop with every intermediate replaced by an empty object, an
\* object included.
RECURSIVE UpdateWalkOverwriting(_, _, _)
UpdateWalkOverwriting(build, keys, value) ==
    IF Len(keys) = 1 THEN MapInsert(build, Head(keys), value)
    ELSE MapInsert(build, Head(keys),
                   JObj(UpdateWalkOverwriting(EmptyMap, Tail(keys), value)))

update_json_value_overwriting(data, key, value) ==
    IF is_object(data)
    THEN JObj(UpdateWalkOverwriting(data.map, split(key), value))
    ELSE data

\* update_json_value(data, key, value)
update_json_value(data, key, value) ==
    IF is_object(data)
    THEN JObj(UpdateWalk(data.map, split(key), value))
    ELSE data

\* The loop of delete_json_key: abort is its `return data.clone()`.
RECURSIVE DeleteWalk(_, _)
DeleteWalk(build, keys) ==
    LET key == Head(keys)
        last == Len(keys) = 1
    IN  IF key \in DOMAIN build
        THEN IF last
             THEN [abort |-> FALSE, map |-> MapRemove(build, key)]
             ELSE IF ~is_object(build[key])
             THEN [abort |-> TRUE, map |-> build]
             ELSE LET r == DeleteWalk(build[key].map, Tail(keys))
                  IN  IF r.abort THEN [abort |-> TRUE, map |-> build]
                      ELSE [abort |-> FALSE,
                            map |-> [build EXCEPT ![key] = JObj(r.map)]]
        ELSE [abort |-> TRUE, map |-> build]

\* The loop removing an intermediate that is no object instead of
\* returning the document.
RECURSIVE DeleteWalkEager(_, _)
DeleteWalkEager(build, keys) ==
    LET key == Head(keys)
    IN  IF key \in DOMAIN build
        THEN IF Len(keys) = 1 \/ ~is_object(build[key])
             THEN [abort |-> FALSE, map |-> MapRemove(build, key)]
             ELSE LET r == DeleteWalkEager(build[key].map, Tail(keys))
                  IN  IF r.abort THEN [abort |-> TRUE, map |-> build]
                      ELSE [abort |-> FALSE,
                            map |-> [build EXCEPT ![key] = JObj(r.map)]]
        ELSE [abort |-> TRUE, map |-> build]

delete_json_key_eager(data, key) ==
    IF is_object(data)
    THEN LET r == DeleteWalkEager(data.map, split(key))
         IN  IF r.abort THEN data ELSE JObj(r.map)
    ELSE data

\* delete_json_key(data, key)
delete_json_key(data, key) ==
    IF is_object(data)
    THEN LET r == DeleteWalk(data.map, split(key))
         IN  IF r.abort THEN data ELSE JObj(r.map)
    ELSE data

(***************************************************************************)
(* JsonDocument: one file of the directory.  `io` is what the file system  *)
(* answers.                                                                *)
(***************************************************************************)
read_stale(d, p, ioOk) ==
    IF ~(ioOk /\ d.wt[p] # Absent)
    THEN [ res |-> Err(<<"ReadError", "io">>), value |-> JNull ]
    ELSE IF d.head[p].kind # "json"
    THEN [ res |-> Panic, value |-> JNull ]
    ELSE [ res |-> Ok, value |-> d.head[p].value ]

\* JsonDocument::read: read_to_string, then from_str(..).unwrap()
read(d, p, ioOk) ==
    IF ~(ioOk /\ d.wt[p] # Absent)
    THEN [ res |-> Err(<<"ReadError", "io">>), value |-> JNull ]
    ELSE IF d.wt[p].kind # "json"
    THEN [ res |-> Panic, value |-> JNull ]
    ELSE [ res |-> Ok, value |-> d.wt[p].value ]

\* JsonDocument::write: fs::write(full_path, data.to_string()); a write that
\* fails after the file was truncated ("torn") leaves text that is not JSON.
write(d, p, data, io) ==
    IF io = "ok" /\ d.exists
    THEN [ res |-> Ok, dir |-> [d EXCEPT !.wt[p] = Json(data)] ]
    ELSE IF io = "torn" /\ d.exists
    THEN [ res |-> Err(<<"WriteError", "io">>),
           dir |-> [d EXCEPT !.wt[p] = Garbage] ]
    ELSE [ res |-> Err(<<"WriteError", "io">>), dir |-> d ]

\* JsonDocument::update
update(d, p, key, value, rIo, wIo) ==
    LET r == read(d, p, rIo)
    IN  IF r.res.status = "Panic" THEN [ res |-> Panic, dir |-> d ]
        ELSE IF r.res.status = "Err"
        THEN [ res |-> Wrap("UpdateError", r.res), dir |-> d ]
        ELSE LET w == write(d, p, update_json_value(r.value, key, value), wIo)
             IN  IF w.res.status = "Ok" THEN w
                 ELSE [ res |-> Wrap("UpdateError", w.res), dir |-> w.dir ]

\* JsonDocument::delete
delete(d, p, key, rIo, wIo) ==
    LET r == read(d, p, rIo)
    IN  IF r.res.status = "Panic" THEN [ res |-> Panic, dir |-> d ]
        ELSE IF r.res.status = "Err"
        THEN [ res |-> Wrap("UpdateError", r.res), dir |-> d ]
        ELSE LET w == write(d, p, delete_json_key(r.value, key), wIo)
             IN  IF w.res.status = "Ok" THEN w
                 ELSE [ res |-> Wrap("UpdateError", w.res), dir |-> w.dir ]

\* JsonDocument::exists: fs::exists(..).unwrap_or_else(|_| false)
exists(d, p, ioOk) == ioOk /\ d.wt[p] # Absent

\* JsonDocument::copy: fs::copy(source, full_path)
copy(d, p, source, ioOk) ==
    IF ioOk /\ source # Absent /\ d.exists
    THEN [ res |-> Ok, dir |-> [d EXCEPT !.wt[p] = source] ]
    ELSE [ res |-> Err(<<"CopyError", "io">>), dir |-> d ]

\* JsonDocument::remove: fs::remove_file(full_path)
remove(d, p, ioOk) ==
    IF ioOk /\ d.wt[p] # Absent
    THEN [ res |-> Ok, dir |-> [d EXCEPT !.wt[p] = Absent] ]
    ELSE [ res |-> Err(<<"RemoveError", "io">>), dir |-> d ]

(***************************************************************************)
(* The document's operations (impl RepoDocument for JsonDocument).         *)
(***************************************************************************)
DocOp(op, p, res) ==
    [ op |-> op, status |-> res.status, err |-> res.err, steps |-> << >>,
      path |-> p, before |-> wt[p] ]

Read(p, ioOk) ==
    LET r == read(CurDir, p, ioOk)
    IN  /\ lastOp' = [ op |-> "read", status |-> r.res.status,
                       err |-> r.res.err, steps |-> << >>, path |-> p,
                       before |-> wt[p], out |-> r.value ]
        /\ UNCHANGED << threads, auth, branch, dirVars, cloneArgs >>

Write(p, data, io) ==
    LET r == write(CurDir, p, data, io)
    IN  /\ SetDir(r.dir)
        /\ lastOp' = DocOp("write", p, r.res)
        /\ UNCHANGED << threads, auth, branch, cloneArgs >>

Update(p, key, value, rIo, wIo) ==
    LET r == update(CurDir, p, key, value, rIo, wIo)
    IN  /\ SetDir(r.dir)
        /\ lastOp' = [ op |-> "update", status |-> r.res.status,
                       err |-> r.res.err, steps |-> << >>, path |-> p,
                       before |-> wt[p], key |-> key, value |-> value ]
        /\ UNCHANGED << threads, auth, branch, cloneArgs >>

Delete(p, key, rIo, wIo) ==
    LET r == delete(CurDir, p, key, rIo, wIo)
    IN  /\ SetDir(r.dir)
        /\ lastOp' = [ op |-> "delete", status |-> r.res.status,
                       err |-> r.res.err, steps |-> << >>, path |-> p,
                       before |-> wt[p], key |-> key ]
        /\ UNCHANGED << threads, auth, branch, cloneArgs >>

Exists(p, ioOk) ==
    /\ lastOp' = [ op |-> "exists", status |-> "Ok", err |-> << >>,
                   steps |-> << >>, path |-> p, before |-> wt[p],
                   found |-> exists(CurDir, p, ioOk) ]
    /\ UNCHANGED << threads, auth, branch, dirVars, cloneArgs >>

Copy(p, source, ioOk) ==
    LET r == copy(CurDir, p, source, ioOk)
    IN  /\ SetDir(r.dir)
        /\ lastOp' = DocOp("copy", p, r.res)
        /\ UNCHANGED << threads, auth, branch, cloneArgs >>

Remove(p, ioOk) ==
    LET r == remove(CurDir, p, ioOk)
    IN  /\ SetDir(r.dir)
        /\ lastOp' = DocOp("remove", p, r.res)
        /\ UNCHANGED << threads, auth, branch, cloneArgs >>

(***************************************************************************)
(* Initial states.  GitStore::new only records the configuration; the      *)
(* directory is whatever the file system holds at repo_path.               *)
(***************************************************************************)
NoCall == [ op |-> "new", status |-> "Ok", err |-> << >>, steps |-> << >> ]

\* The threads that may call into one document at the same time; each is
\* before its read, between its read and its write, or finished.
ThreadIds == { 1, 2 }

Idle(call) == [ pc |-> "idle", call |-> call, data |-> JNull, seen |-> 0 ]

NoThreads ==
    [ t \in ThreadIds |-> Idle([ op |-> "none", key |-> << >>, value |-> JNull ]) ]

\* A directory that is no checkout: empty, or holding unrelated files.
StrayTrees ==
    { [p \in Paths |-> IF p \in S THEN Garbage ELSE Absent] :
        S \in {{}, {"new.json"}, {"doc.json", "cache.tmp"}} }

\* A checkout made earlier, its identity configured or not.
Checkouts ==
    { [ exists |-> TRUE, workTree |-> TRUE, identity |-> i, unmerged |-> FALSE,
        head |-> t, index |-> t, wt |-> t ] :
        i \in BOOLEAN, t \in RemoteTrees }

InitialDirs ==
    {AbsentDir} \cup { [EmptyDir EXCEPT !.wt = t] : t \in StrayTrees }
    \cup Checkouts

InitDir(d) ==
    /\ dirExists = d.exists
    /\ workTree = d.workTree
    /\ identity = d.identity
    /\ unmerged = d.unmerged
    /\ head = d.head
    /\ index = d.index
    /\ wt = d.wt

\* The writes of the store specification: a tracked document is rewritten,
\* a new document and a file the ignore rules match are created.
StoreWrites ==
    [ path : {"doc.json"}, data : StoreDocs ]
    \cup [ path : Paths \ {"doc.json"}, data : {JObj(EmptyMap)} ]

\* The store with an anonymous remote.
Init ==
    /\ auth = Anonymous
    /\ branch = None
    /\ \E d \in InitialDirs : InitDir(d)
    /\ cloneArgs = << >>
    /\ lastOp = NoCall
    /\ calls = 0
    /\ threads = NoThreads

Next ==
    \/ \E w \in StoreWrites, io \in {"ok", "fail"} :
          Write(w.path, w.data, io) /\ UNCHANGED calls
    \/ \E p \in Paths, ioOk \in BOOLEAN :
          Remove(p, ioOk) /\ UNCHANGED calls
    \/ Commit
    \/ Clean
    \/ Pull
    \/ Push
    \/ Initialize

Spec == Init /\ [][Next]_vars

(***************************************************************************)
(* The clone command: every configuration a store can be constructed with, *)
(* and initialize run on it.                                               *)
(***************************************************************************)
InitClone ==
    /\ auth \in GitAuth
    /\ branch \in {None, Some(BranchText)}
    /\ \E d \in {AbsentDir, EmptyDir} \cup Checkouts : InitDir(d)
    /\ cloneArgs = << >>
    /\ lastOp = NoCall
    /\ calls = 0
    /\ threads = NoThreads

NextClone == Initialize

SpecClone == InitClone /\ [][NextClone]_vars

(***************************************************************************)
(* The document engine on one document of a ready store.                   *)
(***************************************************************************)
DocPath == "doc.json"

KeyA == << "a" >>

KeyB == << "b" >>

KeyC == << "c" >>

KeyD == << "d" >>

DocKeys ==
    { << "a" >>, << "d" >>, << "a", ".", "b" >>, << "a", ".", "b", ".", "c" >>,
      << "d", ".", "b" >>, << "a", "." >>, << >> }

DocValues == { JNum(5), JNum(7) }

\* What the file system answers a read-then-write: <<read ok, write outcome>>
DocIo == { <<TRUE, "ok">>, <<FALSE, "ok">>, <<TRUE, "fail">>, <<TRUE, "torn">> }

\* {}, {a:1}, {a:{b:1}}, {a:{b:1,c:2},d:3}, {a:[1]}, 1, [1]
DocSet ==
    { JObj(EmptyMap),
      JObj([k \in {KeyA} |-> JNum(1)]),
      JObj([k \in {KeyA} |-> JObj([j \in {KeyB} |-> JNum(1)])]),
      JObj([k \in {KeyA, KeyD} |->
              IF k = KeyA
              THEN JObj([j \in {KeyB, KeyC} |-> IF j = KeyB THEN JNum(1) ELSE JNum(2)])
              ELSE JNum(3)]),
      JObj([k \in {KeyA} |-> JArr(<< JNum(1) >>)]),
      JNum(1),
      JArr(<< JNum(1) >>) }

DocFiles == {Absent, Garbage} \cup { Json(v) : v \in DocSet }

InitDoc ==
    /\ auth = Anonymous
    /\ branch = None
    /\ \E f \in DocFiles, t \in RemoteTrees :
          InitDir([ exists |-> TRUE, workTree |-> TRUE, identity |-> TRUE,
                    unmerged |-> FALSE, head |-> t, index |-> t,
                    wt |-> [t EXCEPT ![DocPath] = f] ])
    /\ cloneArgs = << >>
    /\ lastOp = NoCall
    /\ calls = 0
    /\ threads = NoThreads

Tick == calls < MaxCalls /\ calls' = calls + 1

NextDoc ==
    \/ \E ioOk \in BOOLEAN : Tick /\ Read(DocPath, ioOk)
    \/ \E v \in DocSet, io \in {"ok", "fail", "torn"} :
          Tick /\ Write(DocPath, v, io)
    \/ \E k \in DocKeys, v \in DocValues, io \in DocIo :
          Tick /\ Update(DocPath, k, v, io[1], io[2])
    \/ \E k \in DocKeys, io \in DocIo :
          Tick /\ Delete(DocPath, k, io[1], io[2])
    \/ \E ioOk \in BOOLEAN : Tick /\ Exists(DocPath, ioOk)
    \/ \E src \in DocFiles, ioOk \in BOOLEAN : Tick /\ Copy(DocPath, src, ioOk)
    \/ \E ioOk \in BOOLEAN : Tick /\ Remove(DocPath, ioOk)

SpecDoc == InitDoc /\ [][NextDoc]_vars

(***************************************************************************)
(* Properties of the repository store.                                     *)
(***************************************************************************)
StepNames(steps) == [i \in DOMAIN steps |-> steps[i].step]

IsPrefix(s, t) == Len(s) <= Len(t) /\ s = SubSeq(t, 1, Len(s))

\* A call ends at its first failing step: every step but the last succeeded.
StopsAtFailure(steps) == \A i \in 1..(Len(steps) - 1) : steps[i].ok

AllOk(steps) == \A i \in DOMAIN steps : steps[i].ok

FreshCheckout ==
    /\ dirExists /\ workTree /\ ~unmerged
    /\ head \in RemoteTrees
    /\ index = head
    /\ wt = head

\* C1: initialize on a directory that exists but that the probe does not
\* report as inside a work tree removes the directory recursively, then
\* creates it again, clones and configures, in this order; when every step
\* succeeds the directory is a valid checkout holding the remote's files and
\* nothing of what it held before.
C1_InvalidDirIsDestroyedAndRecloned ==
    (lastOp.op = "initialize" /\ lastOp.pre = "invalid") =>
        /\ IsPrefix(StepNames(lastOp.steps),
                    << "exists", "rev_parse", "remove_dir_all",
                       "create_dir_all", "clone", "config" >>)
        /\ lastOp.steps[1].ok /\ ~lastOp.steps[2].ok
        /\ Len(lastOp.steps) >= 3
        /\ \A i \in 3..(Len(lastOp.steps) - 1) : lastOp.steps[i].ok
        /\ (Len(lastOp.steps) = 6 /\ \A i \in 3..6 : lastOp.steps[i].ok)
              => /\ lastOp.status = "Ok"
                 /\ FreshCheckout
                 /\ is_valid_repo(CurDir, TRUE)
                 /\ \A p \in Paths : wt[p] # Absent => wt[p] = head[p]

\* An unrelated file of the invalid directory is gone after the re-clone.
C1_Witness ==
    /\ lastOp.op = "initialize" /\ lastOp.pre = "invalid"
    /\ lastOp.status = "Ok"
    /\ lastOp.had["new.json"] = Garbage
    /\ wt["new.json"] = Absent
    /\ FreshCheckout

\* C2: initialize on a directory that is already a valid checkout returns
\* success, runs nothing but the existence test and the probe, and leaves
\* the directory and its configuration as they were; the directory is
\* therefore still a valid checkout for the next call.
C2_InitializeIdempotentOnValid ==
    [][ (lastOp'.op = "initialize" /\ lastOp'.pre = "valid") =>
            /\ lastOp'.status = "Ok"
            /\ lastOp'.steps = << Step("exists", TRUE), Step("rev_parse", TRUE) >>
            /\ UNCHANGED << dirVars, cloneArgs >>
            /\ is_valid_repo(CurDir, TRUE)' ]_vars

\* A no-op initialize on a checkout with uncommitted and untracked files
\* and no configured identity.
C2_Witness ==
    /\ lastOp.op = "initialize" /\ lastOp.pre = "valid"
    /\ lastOp.status = "Ok"
    /\ workTree /\ wt # head /\ wt["new.json"] # Absent
    /\ lastOp.had = wt

\* C3: initialize on an absent directory runs create directory, clone,
\* configure identity in this order, stops at the first step that fails
\* with an error, attempts the configuration only after the clone succeeded,
\* and returns success exactly when all three succeeded.
C3_AbsentDirStepsInOrder ==
    (lastOp.op = "initialize" /\ lastOp.pre = "absent") =>
        /\ IsPrefix(StepNames(lastOp.steps),
                    << "exists", "create_dir_all", "clone", "config" >>)
        /\ StopsAtFailure(lastOp.steps)
        /\ Ran(lastOp.steps, "config") => (workTree /\ lastOp.steps[3].ok)
        /\ lastOp.status = "Ok" <=> (Len(lastOp.steps) = 4 /\ AllOk(lastOp.steps))
        /\ lastOp.status = "Ok" => (FreshCheckout /\ identity)
        /\ lastOp.status # "Ok" =>
              (lastOp.status = "Err" /\ lastOp.err[1] = "Initialize")

\* The clone succeeded and the configuration that followed it failed.
C3_Witness ==
    /\ lastOp.op = "initialize" /\ lastOp.pre = "absent"
    /\ lastOp.status = "Err"
    /\ Len(lastOp.steps) = 4 /\ ~lastOp.steps[4].ok
    /\ workTree /\ ~identity

\* C4: after a successful commit no change of the working directory is left
\* uncommitted: every file outside the ignore rules, a newly created one
\* included, is in the commit as the directory has it.
C4_CommitStagesEveryChange ==
    (lastOp.op = "commit" /\ lastOp.status = "Ok") =>
        \A p \in Paths \ Ignored : wt[p] = head[p]

\* C5: clean runs reset, checkout of all paths, forced removal of untracked
\* and ignored files, in this order, stopping at the first that fails; a
\* successful clean leaves the working tree and the index equal to the last
\* commit, and a failing step is returned as a Clean error.
C5_CleanRestoresLastCommit ==
    lastOp.op = "clean" =>
        /\ IsPrefix(StepNames(lastOp.steps), << "reset", "checkout", "clean" >>)
        /\ Len(lastOp.steps) >= 1
        /\ StopsAtFailure(lastOp.steps)
        /\ lastOp.status = "Ok" <=> (Len(lastOp.steps) = 3 /\ AllOk(lastOp.steps))
        /\ lastOp.status = "Ok" => (wt = head /\ index = head /\ ~unmerged)
        /\ lastOp.status # "Ok" =>
              (lastOp.status = "Err" /\ lastOp.err = << "Clean", "WrapError" >>)

\* A clean that discarded a modified document, a new document and a file
\* the ignore rules match.
C5_Witness ==
    /\ lastOp.op = "clean" /\ lastOp.status = "Ok"
    /\ lastOp.had["doc.json"] # head["doc.json"]
    /\ lastOp.had["new.json"] # Absent
    /\ lastOp.had["cache.tmp"] # Absent
    /\ wt = head

\* The phase each operation reports its failures as.
PhaseOf(op) ==
    CASE op = "initialize" -> "Initialize"
      [] op = "pull" -> "Pull"
      [] op = "push" -> "Push"
      [] op = "commit" -> "Commit"
      [] op = "clean" -> "Clean"

StoreOps == {"initialize", "pull", "push", "commit", "clean"}

\* The steps of a call that are a phase of it: the probe only classifies.
PhaseSteps(steps) == { i \in DOMAIN steps : steps[i].step # "rev_parse" }

\* C6: a store operation whose subprocess or file system call failed
\* returns an error of its own phase that carries the cause (a failed clone
\* inside initialize is Initialize(Clone(cause))), and it returns success
\* only when none failed.
C6_ErrorsNameThePhase ==
    lastOp.op \in StoreOps =>
        /\ lastOp.status \in {"Ok", "Err"}
        /\ lastOp.status = "Ok" <=>
              \A i \in PhaseSteps(lastOp.steps) : lastOp.steps[i].ok
        /\ lastOp.status = "Err" =>
              /\ lastOp.err[1] = PhaseOf(lastOp.op)
              /\ Len(lastOp.err) >= 2
              /\ lastOp.err[Len(lastOp.err)] \in {"WrapError", "io"}
              /\ \A i \in 2..(Len(lastOp.err) - 1) : lastOp.err[i] = "Clone"
              /\ (\E i \in DOMAIN lastOp.steps :
                     lastOp.steps[i].step = "clone" /\ ~lastOp.steps[i].ok)
                 <=> lastOp.err = << "Initialize", "Clone", "WrapError" >>

\* A push that failed.
C6_Witness ==
    /\ lastOp.op = "push"
    /\ lastOp.status = "Err"
    /\ ~lastOp.steps[1].ok
    /\ workTree

\* The http.extraHeader option of the clone command, if it has one.
HeaderOf(args) ==
    IF \E i \in DOMAIN args : args[i].name = "http.extraHeader"
    THEN (args[CHOOSE i \in DOMAIN args : args[i].name = "http.extraHeader"]).value
    ELSE None

ClaimedBearerPrefix ==  \* "Authorization: Bearer "
    << 65, 117, 116, 104, 111, 114, 105, 122, 97, 116, 105, 111, 110, 58, 32,
       66, 101, 97, 114, 101, 114, 32 >>

ClaimedHeader(a) ==
    IF a.token.some THEN Some(ClaimedBearerPrefix \o a.token.val)
    ELSE IF a.user.some /\ a.password.some
    THEN Some(BasicPrefix \o Base64Encode(a.user.val \o Colon \o a.password.val))
    ELSE None

\* C7: the auth header of the clone command is "Authorization: Bearer
\* <token>" (one space) when a token is configured, else "Authorization:
\* Basic <base64(user:password)>" when both are, else there is none.
C7_AuthHeaderAsSpecified ==
    cloneArgs # << >> => HeaderOf(cloneArgs) = ClaimedHeader(auth)

(***************************************************************************)
(* Properties of the document engine.                                      *)
(***************************************************************************)
Missing == [t |-> "missing"]

\* The value a path of object keys leads to, through objects only.
RECURSIVE At(_, _)
At(v, path) ==
    IF Len(path) = 0 THEN v
    ELSE IF v.t = "obj" /\ Head(path) \in DOMAIN v.map
    THEN At(v.map[Head(path)], Tail(path))
    ELSE Missing

\* The segments of a dotted path: the runs between its dots.
Dots(key) == { i \in 1..Len(key) : key[i] = "." }

NthDot(key, k) ==
    IF k = 0 THEN 0
    ELSE IF k > Cardinality(Dots(key)) THEN Len(key) + 1
    ELSE CHOOSE i \in Dots(key) : Cardinality({ j \in Dots(key) : j < i }) = k - 1

Segments(key) ==
    [ k \in 1..(Cardinality(Dots(key)) + 1) |->
        SubSeq(key, NthDot(key, k - 1) + 1, NthDot(key, k) - 1) ]

\* r is b with `value` upserted at the dotted path `key`.
IsUpsert(b, key, value, r) ==
    LET segs == Segments(key)
        n == Len(segs)
    IN  IF b.t # "obj" THEN r = b
        ELSE \A i \in 0..(n - 1) :
               LET nxt == segs[i + 1]
                   rb == At(b, SubSeq(segs, 1, i))
                   rr == At(r, SubSeq(segs, 1, i))
               IN  /\ rr.t = "obj"
                   /\ nxt \in DOMAIN rr.map
                   /\ i = n - 1 => rr.map[nxt] = value
                   /\ i < n - 1 => rr.map[nxt].t = "obj"
                   /\ IF rb.t = "obj"
                      THEN /\ DOMAIN rr.map = DOMAIN rb.map \cup {nxt}
                           /\ \A k \in DOMAIN rb.map \ {nxt} : rr.map[k] = rb.map[k]
                      ELSE DOMAIN rr.map = {nxt}

KeyAB == << "a", ".", "b" >>

ObjA(v) == JObj([k \in {KeyA} |-> v])

ObjB(v) == JObj([k \in {KeyB} |-> v])

\* C8: update_json_value is the dotted-path upsert: the value is at the
\* final segment, an absent or non-object intermediate becomes an object
\* holding only the next segment, an object intermediate keeps its other
\* keys, and a root that is no object is returned as it is.
C8_UpdateIsDottedPathUpsert ==
    (lastOp.op = "update" /\ lastOp.status = "Ok") =>
        /\ lastOp.before.kind = "json"
        /\ wt[DocPath].kind = "json"
        /\ IsUpsert(lastOp.before.value, lastOp.key, lastOp.value,
                    wt[DocPath].value)
        /\ (lastOp.key = KeyAB /\ lastOp.value = JNum(5)
            /\ lastOp.before \in {Json(JObj(EmptyMap)), Json(ObjA(JNum(1)))})
              => wt[DocPath] = Json(ObjA(ObjB(JNum(5))))
        /\ (lastOp.key = KeyAB /\ lastOp.value = JNum(7)
            /\ lastOp.before = Json(ObjA(ObjB(JNum(5)))))
              => wt[DocPath] = Json(ObjA(ObjB(JNum(7))))

\* {a:{b:5}}, made by an update, has a.b replaced by 7.
C8_Witness ==
    /\ lastOp.op = "update" /\ lastOp.status = "Ok"
    /\ lastOp.key = KeyAB /\ lastOp.value = JNum(7)
    /\ lastOp.before = Json(ObjA(ObjB(JNum(5))))
    /\ wt[DocPath] = Json(ObjA(ObjB(JNum(7))))

\* Every segment of the path exists in b, the non-final ones as objects.
Resolves(b, segs) ==
    \A i \in 0..(Len(segs) - 1) :
        /\ At(b, SubSeq(segs, 1, i)).t = "obj"
        /\ segs[i + 1] \in DOMAIN At(b, SubSeq(segs, 1, i)).map

\* r is b with the key at the dotted path `key` removed, or b itself when
\* the path does not resolve.
IsDeletion(b, key, r) ==
    LET segs == Segments(key)
        n == Len(segs)
    IN  IF ~Resolves(b, segs) THEN r = b
        ELSE \A i \in 0..(n - 1) :
               LET nxt == segs[i + 1]
                   rb == At(b, SubSeq(segs, 1, i))
                   rr == At(r, SubSeq(segs, 1, i))
               IN  /\ rr.t = "obj"
                   /\ DOMAIN rr.map =
                        DOMAIN rb.map \ (IF i = n - 1 THEN {nxt} ELSE {})
                   /\ \A k \in DOMAIN rr.map \ {nxt} : rr.map[k] = rb.map[k]

\* C9: delete_json_key removes exactly the key at the final segment when
\* the path resolves, and returns the document as it was when a segment is
\* missing, a non-final segment is no object or the root is no object.
C9_DeleteRemovesLeafOrNothing ==
    (lastOp.op = "delete" /\ lastOp.status = "Ok") =>
        /\ lastOp.before.kind = "json"
        /\ wt[DocPath].kind = "json"
        /\ IsDeletion(lastOp.before.value, lastOp.key, wt[DocPath].value)
        /\ (lastOp.key = KeyAB /\ lastOp.before = Json(ObjA(ObjB(JNum(1)))))
              => wt[DocPath] = Json(ObjA(JObj(EmptyMap)))
        /\ (lastOp.key = KeyAB /\ lastOp.before = Json(ObjA(JNum(1))))
              => wt[DocPath] = Json(ObjA(JNum(1)))

\* a.b is removed from {a:{b:1,c:2},d:3}: a.c and d stay.
C9_Witness ==
    /\ lastOp.op = "delete" /\ lastOp.status = "Ok"
    /\ lastOp.key = KeyAB
    /\ At(lastOp.before.value, << KeyA, KeyB >>) = JNum(1)
    /\ At(wt[DocPath].value, << KeyA, KeyB >>) = Missing
    /\ At(wt[DocPath].value, << KeyA, KeyC >>) = JNum(2)
    /\ At(wt[DocPath].value, << KeyD >>) = JNum(3)

\* C10: read, and update and delete which read first, return a typed
\* result on a file that does not hold valid JSON: they never panic.
C10_ReadReturnsTypedResult ==
    lastOp.op \in {"read", "update", "delete"} =>
        lastOp.status \in {"Ok", "Err"}

\* The error kind the document engine's contract gives each operation.
MatchingKind(op) ==
    CASE op = "read"   -> "ReadError"
      [] op = "write"  -> "WriteError"
      [] op = "update" -> "UpdateError"
      [] op = "delete" -> "DeleteError"
      [] op = "copy"   -> "CopyError"
      [] op = "remove" -> "RemoveError"
      [] OTHER         -> "none"

\* C11: a document operation that fails returns the error kind of that
\* operation (a failing delete returns DeleteError), never another one's.
C11_ErrorKindMatchesOperation ==
    (lastOp.op \in {"read", "write", "update", "delete", "copy", "remove"}
       /\ lastOp.status = "Err")
        => lastOp.err[1] = MatchingKind(lastOp.op)

(***************************************************************************)
(* Number (src/src/number.rs): PosInt(u64), NegInt(i64) or Float(f64).     *)
(* The integer width and the float mantissa are scaled down together: u64  *)
(* is IntBits wide, i64 is its signed half, i128 / u128 are twice as wide, *)
(* and a float keeps MantBits significant bits (fewer than IntBits, as 53  *)
(* is fewer than 64).                                                      *)
(***************************************************************************)
IntBits == 4

MantBits == 3

U64Max == 2^IntBits - 1

I64Max == 2^(IntBits - 1) - 1

I64Min == -(2^(IntBits - 1))

I128 == (-(2^(2 * IntBits - 1))) .. (2^(2 * IntBits - 1) - 1)

U128 == 0 .. (2^(2 * IntBits) - 1)

\* u64::try_from / i64::try_from
U64TryFrom(i) == IF 0 <= i /\ i <= U64Max THEN Some(i) ELSE None

I64TryFrom(i) == IF I64Min <= i /\ i <= I64Max THEN Some(i) ELSE None

\* `n as i64` of a u64: the same bits read as two's complement
U64AsI64(n) == IF n > I64Max THEN n - 2^IntBits ELSE n

\* A float: finite with magnitude m halves and a sign bit (so -0.0 and 0.0
\* are two values), an infinity, or NaN.
FloatTop == 2^(IntBits + 2)

Representable(m, bits) ==
    \E s \in 0 .. (IntBits + 2) : m % (2^s) = 0 /\ m \div (2^s) < 2^bits

Finite(neg, m) == [ fc |-> "finite", neg |-> neg, m |-> m ]

Infinity(neg) == [ fc |-> "inf", neg |-> neg, m |-> 0 ]

NaN == [ fc |-> "nan", neg |-> FALSE, m |-> 0 ]

FloatsOf(bits) ==
    { Finite(neg, m) : neg \in BOOLEAN,
                       m \in { k \in 0 .. FloatTop : Representable(k, bits) } }
    \cup { Infinity(FALSE), Infinity(TRUE), NaN }

F64 == FloatsOf(MantBits)

F32 == FloatsOf(MantBits - 1)

is_finite(f) == f.fc = "finite"

\* `f as f64` of an f32 is exact: every f32 is an f64 of the same value.
F32AsF64(f) == f

\* The position of a float that is no NaN on the extended real line.
FloatOrd(f) ==
    IF f.fc = "inf" THEN (IF f.neg THEN -(FloatTop + 1) ELSE FloatTop + 1)
    ELSE IF f.neg THEN -f.m ELSE f.m

\* ==, <, <= of f64 (IEEE: false when an operand is NaN; -0.0 == 0.0)
FloatEq(a, b) == a.fc # "nan" /\ b.fc # "nan" /\ FloatOrd(a) = FloatOrd(b)

FloatLt(a, b) == a.fc # "nan" /\ b.fc # "nan" /\ FloatOrd(a) < FloatOrd(b)

FloatLe(a, b) == a.fc # "nan" /\ b.fc # "nan" /\ FloatOrd(a) <= FloatOrd(b)

\* `n as f64` of an integer: the nearest float, ties to the even mantissa.
RoundToFloat(m) ==
    LET s  == CHOOSE k \in 0 .. (IntBits + 2) :
                 /\ m \div (2^k) < 2^MantBits
                 /\ \A j \in 0 .. (k - 1) : m \div (2^j) >= 2^MantBits
        q  == m \div (2^s)
        r  == m % (2^s)
        up == 2 * r > 2^s \/ (2 * r = 2^s /\ q % 2 = 1)
    IN  (IF up THEN q + 1 ELSE q) * (2^s)

IntAsF64(n) ==
    IF n < 0 THEN Finite(TRUE, RoundToFloat(2 * (-n)))
    ELSE Finite(FALSE, RoundToFloat(2 * n))

\* enum NumericTerm, and struct Number { n: NumericTerm }
PosInt(v) == [ variant |-> "PosInt", v |-> v ]

NegInt(v) == [ variant |-> "NegInt", v |-> v ]

Float(f) == [ variant |-> "Float", f |-> f ]

Number(t) == [ n |-> t ]

is_i64_any_integer(x) == x.n.variant # "Float"

\* Number::is_i64
is_i64(x) ==
    CASE x.n.variant = "PosInt" -> x.n.v <= I64Max
      [] x.n.variant = "NegInt" -> TRUE
      [] x.n.variant = "Float"  -> FALSE

\* Number::is_u64
is_u64(x) == x.n.variant = "PosInt"

\* Number::is_f64
is_f64(x) == x.n.variant = "Float"

\* Number::as_i64
as_i64(x) ==
    CASE x.n.variant = "PosInt" ->
             IF x.n.v <= I64Max THEN Some(U64AsI64(x.n.v)) ELSE None
      [] x.n.variant = "NegInt" -> Some(x.n.v)
      [] x.n.variant = "Float"  -> None

\* Number::as_u64
as_u64(x) == IF x.n.variant = "PosInt" THEN Some(x.n.v) ELSE None

\* Number::as_f64
as_f64(x) ==
    IF x.n.variant = "Float" THEN Some(x.n.f) ELSE Some(IntAsF64(x.n.v))

\* Number::from_f64
from_f64(f) == IF is_finite(f) THEN Some(Number(Float(f))) ELSE None

\* Number::from_f32
from_f32(f) == IF is_finite(f) THEN Some(Number(Float(F32AsF64(f)))) ELSE None

from_i128_truncating(i) == Some(Number(PosInt(i % (2^IntBits))))

from_i128_signed_first(i) ==
    IF I64TryFrom(i).some THEN Some(Number(NegInt(i)))
    ELSE IF U64TryFrom(i).some THEN Some(Number(PosInt(i)))
    ELSE None

\* Number::from_i128
from_i128(i) ==
    IF U64TryFrom(i).some THEN Some(Number(PosInt(U64TryFrom(i).val)))
    ELSE IF I64TryFrom(i).some THEN Some(Number(NegInt(I64TryFrom(i).val)))
    ELSE None

\* Number::from_u128
from_u128(i) ==
    IF U64TryFrom(i).some THEN Some(Number(PosInt(U64TryFrom(i).val)))
    ELSE None

\* impl PartialEq for NumericTerm
eq(a, b) ==
    CASE a.variant = "PosInt" /\ b.variant = "PosInt" -> a.v = b.v
      [] a.variant = "NegInt" /\ b.variant = "NegInt" -> a.v = b.v
      [] a.variant = "Float" /\ b.variant = "Float"   -> FloatEq(a.f, b.f)
      [] OTHER -> FALSE

\* The value of a term as a float, for a comparison that coerces.
Coerced(t) == IF t.variant = "Float" THEN t.f ELSE IntAsF64(t.v)

lt_coercing(a, b) == FloatLt(Coerced(a), Coerced(b))

\* impl PartialOrd for NumericTerm: lt, le, gt, ge
lt(a, b) ==
    CASE a.variant = "PosInt" /\ b.variant = "PosInt" -> a.v < b.v
      [] a.variant = "NegInt" /\ b.variant = "NegInt" -> a.v < b.v
      [] a.variant = "Float" /\ b.variant = "Float"   -> FloatLt(a.f, b.f)
      [] OTHER -> FALSE

le(a, b) ==
    CASE a.variant = "PosInt" /\ b.variant = "PosInt" -> a.v <= b.v
      [] a.variant = "NegInt" /\ b.variant = "NegInt" -> a.v <= b.v
      [] a.variant = "Float" /\ b.variant = "Float"   -> FloatLe(a.f, b.f)
      [] OTHER -> FALSE

gt(a, b) ==
    CASE a.variant = "PosInt" /\ b.variant = "PosInt" -> a.v > b.v
      [] a.variant = "NegInt" /\ b.variant = "NegInt" -> a.v > b.v
      [] a.variant = "Float" /\ b.variant = "Float"   -> FloatLt(b.f, a.f)
      [] OTHER -> FALSE

ge(a, b) ==
    CASE a.variant = "PosInt" /\ b.variant = "PosInt" -> a.v >= b.v
      [] a.variant = "NegInt" /\ b.variant = "NegInt" -> a.v >= b.v
      [] a.variant = "Float" /\ b.variant = "Float"   -> FloatLe(b.f, a.f)
      [] OTHER -> FALSE

\* impl PartialOrd for NumericTerm: partial_cmp, built on <, > and ==
partial_cmp(a, b) ==
    IF lt(a, b) THEN Some("Less")
    ELSE IF gt(a, b) THEN Some("Greater")
    ELSE IF eq(a, b) THEN Some("Equal")
    ELSE None

\* #[derive(PartialEq, PartialOrd)] for Number: the comparison of the one
\* field; <, <=, >, >= are the provided methods that match on partial_cmp.
NumberEq(x, y) == eq(x.n, y.n)

NumberPartialCmp(x, y) == partial_cmp(x.n, y.n)

OrdLt(c) == c.some /\ c.val = "Less"

OrdLe(c) == c.some /\ c.val \in {"Less", "Equal"}

OrdGt(c) == c.some /\ c.val = "Greater"

OrdGe(c) == c.some /\ c.val \in {"Greater", "Equal"}

\* Every Number the constructors return.
Numbers ==
    { r.val : r \in { c \in { from_i128(i) : i \in I128 }
                              \cup { from_u128(i) : i \in U128 }
                              \cup { from_f64(f) : f \in F64 }
                              \cup { from_f32(f) : f \in F32 } : c.some } }

NumCall(op, arg, out) ==
    [ op |-> op, status |-> "Ok", err |-> << >>, steps |-> << >>,
      arg |-> arg, out |-> out ]

FromI128(i) ==
    /\ lastOp' = NumCall("from_i128", i, from_i128(i))
    /\ UNCHANGED << threads, auth, branch, dirVars, cloneArgs >>

FromU128(i) ==
    /\ lastOp' = NumCall("from_u128", i, from_u128(i))
    /\ UNCHANGED << threads, auth, branch, dirVars, cloneArgs >>

FromF64(f) ==
    /\ lastOp' = NumCall("from_f64", f, from_f64(f))
    /\ UNCHANGED << threads, auth, branch, dirVars, cloneArgs >>

FromF32(f) ==
    /\ lastOp' = NumCall("from_f32", f, from_f32(f))
    /\ UNCHANGED << threads, auth, branch, dirVars, cloneArgs >>

\* The classification and the accessors of one Number.
Classify(x) ==
    /\ lastOp' = [ op |-> "classify", status |-> "Ok", err |-> << >>,
                   steps |-> << >>, arg |-> x,
                   is_i64 |-> is_i64(x), is_u64 |-> is_u64(x),
                   is_f64 |-> is_f64(x), as_i64 |-> as_i64(x),
                   as_u64 |-> as_u64(x), as_f64 |-> as_f64(x) ]
    /\ UNCHANGED << threads, auth, branch, dirVars, cloneArgs >>

\* x == y, x < y, x <= y, x > y, x >= y and x.partial_cmp(y) of two Numbers.
Compare(x, y) ==
    /\ lastOp' = [ op |-> "compare", status |-> "Ok", err |-> << >>,
                   steps |-> << >>, a |-> x, b |-> y,
                   eq |-> NumberEq(x, y),
                   lt |-> OrdLt(NumberPartialCmp(x, y)),
                   le |-> OrdLe(NumberPartialCmp(x, y)),
                   gt |-> OrdGt(NumberPartialCmp(x, y)),
                   ge |-> OrdGe(NumberPartialCmp(x, y)),
                   cmp |-> NumberPartialCmp(x, y) ]
    /\ UNCHANGED << threads, auth, branch, dirVars, cloneArgs >>

InitNum ==
    /\ auth = Anonymous
    /\ branch = None
    /\ InitDir(AbsentDir)
    /\ cloneArgs = << >>
    /\ lastOp = NoCall
    /\ calls = 0
    /\ threads = NoThreads

\* One call per behaviour: the functions are pure, a second call adds nothing.
Once == calls = 0 /\ calls' = 1

NextNum ==
    \/ \E i \in I128 : Once /\ FromI128(i)
    \/ \E i \in U128 : Once /\ FromU128(i)
    \/ \E f \in F64 : Once /\ FromF64(f)
    \/ \E f \in F32 : Once /\ FromF32(f)
    \/ \E x \in Numbers : Once /\ Classify(x)
    \/ \E x \in Numbers, y \in Numbers : Once /\ Compare(x, y)

SpecNum == InitNum /\ [][NextNum]_vars

(***************************************************************************)
(* Properties of Number.                                                   *)
(***************************************************************************)
\* The stored value of a Number, in halves for a float.
StoredValue(x) ==
    IF x.n.variant = "Float"
    THEN (IF x.n.f.neg THEN -x.n.f.m ELSE x.n.f.m)
    ELSE x.n.v

UsualOrder(u, v) ==
    IF u < v THEN "Less" ELSE IF u > v THEN "Greater" ELSE "Equal"

\* C14: two Numbers of different variants are unequal and unordered (==, <,
\* <=, >, >= all false, partial_cmp None, no coercion); two Numbers of one
\* variant compare as their stored values do.
C14_CrossVariantUnordered ==
    lastOp.op = "compare" =>
        LET u == StoredValue(lastOp.a)
            v == StoredValue(lastOp.b)
        IN  IF lastOp.a.n.variant # lastOp.b.n.variant
            THEN /\ ~lastOp.eq /\ ~lastOp.lt /\ ~lastOp.le
                 /\ ~lastOp.gt /\ ~lastOp.ge
                 /\ ~lastOp.cmp.some
            ELSE /\ lastOp.eq = (u = v)
                 /\ lastOp.lt = (u < v)
                 /\ lastOp.le = (u <= v)
                 /\ lastOp.gt = (u > v)
                 /\ lastOp.ge = (u >= v)
                 /\ lastOp.cmp.some
                 /\ lastOp.cmp.val = UsualOrder(u, v)

\* PosInt 5 against NegInt -1 and against Float 5.0
C14_Witness ==
    /\ lastOp.op = "compare"
    /\ lastOp.a = Number(PosInt(5))
    /\ lastOp.b \in { Number(NegInt(-1)), Number(Float(Finite(FALSE, 10))) }
    /\ ~lastOp.gt /\ ~lastOp.eq /\ ~lastOp.cmp.some

\* C15: from_i128 / from_u128 of i in [0, u64::MAX] give a Number with
\* as_u64 = i, and as_i64 = i exactly when i <= i64::MAX; from_i128 of i in
\* [i64::MIN, -1] gives as_i64 = i and no as_u64; outside [i64::MIN,
\* u64::MAX] both constructors return no value.
C15_IntegerRoundTrip ==
    lastOp.op \in {"from_i128", "from_u128"} =>
        LET i == lastOp.arg
            r == lastOp.out
        IN  /\ (0 <= i /\ i <= U64Max) =>
                  /\ r.some
                  /\ as_u64(r.val).some /\ as_u64(r.val).val = i
                  /\ as_i64(r.val).some = (i <= I64Max)
                  /\ as_i64(r.val).some => as_i64(r.val).val = i
            /\ (I64Min <= i /\ i <= -1) =>
                  /\ r.some
                  /\ as_i64(r.val).some /\ as_i64(r.val).val = i
                  /\ ~as_u64(r.val).some
            /\ (i < I64Min \/ i > U64Max) => ~r.some

\* u64::MAX, which fits u64 and not i64, and the first integer too large
C15_Witness ==
    /\ lastOp.op = "from_i128"
    /\ lastOp.arg = U64Max
    /\ lastOp.out.some
    /\ as_u64(lastOp.out.val).some
    /\ ~as_i64(lastOp.out.val).some
    /\ ~from_i128(U64Max + 1).some

\* C18: a Number a constructor returns keeps the representation invariant:
\* NegInt is below zero (zero and every positive integer is a PosInt) and
\* Float is finite; a non-finite float gives no Number.
C18_RepresentationInvariant ==
    lastOp.op \in {"from_i128", "from_u128", "from_f64", "from_f32"} =>
        /\ lastOp.out.some =>
              LET t == lastOp.out.val.n
              IN  /\ t.variant = "NegInt" => t.v < 0
                  /\ t.variant = "PosInt" => t.v >= 0
                  /\ t.variant = "Float" => t.f.fc = "finite"
        /\ (lastOp.op \in {"from_i128", "from_u128"} /\ lastOp.out.some
              /\ lastOp.arg >= 0) => lastOp.out.val.n.variant = "PosInt"
        /\ (lastOp.op \in {"from_f64", "from_f32"}
              /\ lastOp.arg.fc # "finite") => ~lastOp.out.some

\* zero is stored as PosInt
C18_Witness ==
    /\ lastOp.op = "from_i128"
    /\ lastOp.arg = 0
    /\ lastOp.out = Some(Number(PosInt(0)))

\* C19: is_i64 holds exactly when as_i64 returns a value, is_u64 exactly
\* when as_u64 does, is_f64 implies as_f64 returns the stored float, and
\* is_f64 holds exactly when is_i64 and is_u64 are both false.
C19_ClassificationMatchesAccessors ==
    lastOp.op = "classify" =>
        /\ lastOp.is_i64 = lastOp.as_i64.some
        /\ lastOp.is_u64 = lastOp.as_u64.some
        /\ lastOp.is_f64 =>
              /\ lastOp.as_f64.some
              /\ lastOp.arg.n.variant = "Float"
              /\ lastOp.as_f64.val = lastOp.arg.n.f
        /\ lastOp.is_f64 = (~lastOp.is_i64 /\ ~lastOp.is_u64)

\* an unsigned integer above i64::MAX: u64 and neither i64 nor f64
C19_Witness ==
    /\ lastOp.op = "classify"
    /\ lastOp.arg = Number(PosInt(U64Max))
    /\ lastOp.is_u64 /\ ~lastOp.is_i64 /\ ~lastOp.is_f64
    /\ lastOp.as_u64.some /\ ~lastOp.as_i64.some

(***************************************************************************)
(* QueryLiteral, QueryTerm (src/src/query_literal.rs, query_term.rs) and   *)
(* the query tree with its evaluator (src/src/repo_query.rs).  Both enums  *)
(* derive PartialEq and PartialOrd: equality is same variant and equal     *)
(* fields; the order compares the variants' positions in the declaration   *)
(* first and the fields, in order, only within one variant.                *)
(***************************************************************************)
LitNull == [ lit |-> "Null" ]

LitBool(b) == [ lit |-> "Bool", b |-> b ]

LitNumber(x) == [ lit |-> "Number", x |-> x ]

LitString(s) == [ lit |-> "String", s |-> s ]

\* The position of a variant in `enum QueryLiteral`
LitIndex(l) ==
    CASE l.lit = "Null"   -> 0
      [] l.lit = "Bool"   -> 1
      [] l.lit = "Number" -> 2
      [] l.lit = "String" -> 3

IntCmp(u, v) ==
    IF u < v THEN Some("Less") ELSE IF u > v THEN Some("Greater")
    ELSE Some("Equal")

\* str::partial_cmp: byte by byte, a proper prefix is less
RECURSIVE StrCmp(_, _)
StrCmp(s, t) ==
    IF s = << >> /\ t = << >> THEN Some("Equal")
    ELSE IF s = << >> THEN Some("Less")
    ELSE IF t = << >> THEN Some("Greater")
    ELSE IF Head(s) # Head(t) THEN IntCmp(Head(s), Head(t))
    ELSE StrCmp(Tail(s), Tail(t))

\* #[derive(PartialEq)] for QueryLiteral
LiteralEq(a, b) ==
    /\ a.lit = b.lit
    /\ CASE a.lit = "Null"   -> TRUE
         [] a.lit = "Bool"   -> a.b = b.b
         [] a.lit = "Number" -> NumberEq(a.x, b.x)
         [] a.lit = "String" -> a.s = b.s

\* #[derive(PartialOrd)] for QueryLiteral
LiteralPartialCmp(a, b) ==
    IF a.lit # b.lit THEN IntCmp(LitIndex(a), LitIndex(b))
    ELSE CASE a.lit = "Null"   -> Some("Equal")
           [] a.lit = "Bool"   ->
                IntCmp(IF a.b THEN 1 ELSE 0, IF b.b THEN 1 ELSE 0)
           [] a.lit = "Number" -> NumberPartialCmp(a.x, b.x)
           [] a.lit = "String" -> StrCmp(a.s, b.s)

\* enum QueryTerm
Literal(l) == [ term |-> "Literal", l |-> l ]

Field(name, l) == [ term |-> "Field", name |-> name, l |-> l ]

\* #[derive(PartialEq)] for QueryTerm
TermEq(a, b) ==
    /\ a.term = b.term
    /\ a.term = "Field" => a.name = b.name
    /\ LiteralEq(a.l, b.l)

\* #[derive(PartialOrd)] for QueryTerm
TermPartialCmp(a, b) ==
    IF a.term # b.term
    THEN (IF a.term = "Literal" THEN Some("Less") ELSE Some("Greater"))
    ELSE IF a.term = "Field" /\ a.name # b.name THEN StrCmp(a.name, b.name)
    ELSE LiteralPartialCmp(a.l, b.l)

\* enum Clause<T>, with T = QueryTerm
Cmp(c, a, b) == [ c |-> c, a |-> a, b |-> b ]

And(l, r) == [ c |-> "And", l |-> l, r |-> r ]

Or(l, r) == [ c |-> "Or", l |-> l, r |-> r ]

Not(l) == [ c |-> "Not", l |-> l ]

CmpOps == { "Eq", "Ne", "Ge", "Gt", "Le", "Lt" }

RECURSIVE EvaluateOrAsAnd(_)
EvaluateOrAsAnd(q) ==
    CASE q.c = "Eq"  -> TermEq(q.a, q.b)
      [] q.c = "Ne"  -> ~TermEq(q.a, q.b)
      [] q.c = "Ge"  -> OrdGe(TermPartialCmp(q.a, q.b))
      [] q.c = "Gt"  -> OrdGt(TermPartialCmp(q.a, q.b))
      [] q.c = "Le"  -> OrdLe(TermPartialCmp(q.a, q.b))
      [] q.c = "Lt"  -> OrdLt(TermPartialCmp(q.a, q.b))
      [] q.c = "And" -> EvaluateOrAsAnd(q.l) /\ EvaluateOrAsAnd(q.r)
      [] q.c = "Or"  -> EvaluateOrAsAnd(q.l) /\ EvaluateOrAsAnd(q.r)
      [] q.c = "Not" -> ~EvaluateOrAsAnd(q.l)

evaluate_or_as_and(q) == EvaluateOrAsAnd(q)

\* RepoQuery::evaluate
RECURSIVE evaluate(_)
evaluate(q) ==
    CASE q.c = "Eq"  -> TermEq(q.a, q.b)
      [] q.c = "Ne"  -> ~TermEq(q.a, q.b)
      [] q.c = "Ge"  -> OrdGe(TermPartialCmp(q.a, q.b))
      [] q.c = "Gt"  -> OrdGt(TermPartialCmp(q.a, q.b))
      [] q.c = "Le"  -> OrdLe(TermPartialCmp(q.a, q.b))
      [] q.c = "Lt"  -> OrdLt(TermPartialCmp(q.a, q.b))
      [] q.c = "And" -> evaluate(q.l) /\ evaluate(q.r)
      [] q.c = "Or"  -> evaluate(q.l) \/ evaluate(q.r)
      [] q.c = "Not" -> ~evaluate(q.l)

\* The terms queries are built from: literals of the four types (the
\* numbers of all three variants, the text "5" beside the number 5) and
\* terms that carry a field name.
QueryNumbers ==
    { Number(PosInt(1)), Number(PosInt(2)), Number(PosInt(5)),
      Number(NegInt(-1)), Number(Float(Finite(FALSE, 10))) }

QueryStrings == { << 53 >>, << 97 >>, << 97, 98 >> }

QueryLiterals ==
    {LitNull} \cup { LitBool(b) : b \in BOOLEAN }
    \cup { LitNumber(x) : x \in QueryNumbers }
    \cup { LitString(t) : t \in QueryStrings }

QueryTerms ==
    { Literal(l) : l \in QueryLiterals }
    \cup { Field(<< 97 >>, LitNumber(Number(PosInt(5)))),
           Field(<< 97 >>, LitString(<< 97 >>)),
           Field(<< 98 >>, LitNumber(Number(PosInt(5)))) }

Comparisons == { Cmp(c, a, b) : c \in CmpOps, a \in QueryTerms, b \in QueryTerms }

Num(k) == Literal(LitNumber(Number(PosInt(k))))

\* Eq(5,5), Eq(1,2), Eq(2,2)
TreeLeaves == { Cmp("Eq", Num(5), Num(5)), Cmp("Eq", Num(1), Num(2)),
                Cmp("Eq", Num(2), Num(2)) }

SubTrees ==
    TreeLeaves \cup { Not(a) : a \in TreeLeaves }
    \cup { And(a, b) : a \in TreeLeaves, b \in TreeLeaves \cup { Not(x) : x \in TreeLeaves } }
    \cup { Or(a, b) : a \in TreeLeaves, b \in TreeLeaves }

Trees ==
    SubTrees
    \cup { Not(And(a, b)) : a \in SubTrees, b \in SubTrees }
    \cup { Or(Not(a), Not(b)) : a \in SubTrees, b \in SubTrees }
    \cup { Not(Or(a, b)) : a \in SubTrees, b \in SubTrees }
    \cup { And(Not(a), Not(b)) : a \in SubTrees, b \in SubTrees }

Evaluate(q) ==
    /\ lastOp' = [ op |-> "evaluate", status |-> "Ok", err |-> << >>,
                   steps |-> << >>, query |-> q, out |-> evaluate(q) ]
    /\ UNCHANGED << threads, auth, branch, dirVars, cloneArgs >>

InitQuery ==
    /\ auth = Anonymous
    /\ branch = None
    /\ InitDir(AbsentDir)
    /\ cloneArgs = << >>
    /\ lastOp = NoCall
    /\ calls = 0
    /\ threads = NoThreads

NextQuery == \E q \in Comparisons \cup Trees : Once /\ Evaluate(q)

SpecQuery == InitQuery /\ [][NextQuery]_vars

(***************************************************************************)
(* Properties of the query evaluator.                                      *)
(***************************************************************************)
TypeOf(t) == t.l.lit

\* C12: a comparison of two terms of different types (Null, Bool, Number,
\* String) evaluates to false for Eq, Ge, Gt, Le and Lt and to true for Ne,
\* whichever operand comes first.
C12_TypeMismatchComparesFalse ==
    (lastOp.op = "evaluate" /\ lastOp.query.c \in CmpOps
       /\ TypeOf(lastOp.query.a) # TypeOf(lastOp.query.b))
        => lastOp.out = (lastOp.query.c = "Ne")

\* The truth of a tree by the rules of boolean algebra over its comparisons.
RECURSIVE Truth(_)
Truth(q) ==
    CASE q.c \in CmpOps -> evaluate(q)
      [] q.c = "And" -> Truth(q.l) /\ Truth(q.r)
      [] q.c = "Or"  -> Truth(q.l) \/ Truth(q.r)
      [] q.c = "Not" -> ~Truth(q.l)

\* C13: evaluate is conjunction on And, disjunction on Or and negation on
\* Not, so both De Morgan equivalences hold for all sub-trees, and
\* And(Eq(5,5), Not(Eq(1,2))) and Or(Eq(1,2), Eq(2,2)) are true.
C13_BooleanSemantics ==
    lastOp.op = "evaluate" =>
        LET q == lastOp.query
        IN  /\ lastOp.out = Truth(q)
            /\ (q.c = "Not" /\ q.l.c = "And") =>
                  lastOp.out = evaluate(Or(Not(q.l.l), Not(q.l.r)))
            /\ (q.c = "Not" /\ q.l.c = "Or") =>
                  lastOp.out = evaluate(And(Not(q.l.l), Not(q.l.r)))
            /\ q = And(Cmp("Eq", Num(5), Num(5)), Not(Cmp("Eq", Num(1), Num(2))))
                  => lastOp.out
            /\ q = Or(Cmp("Eq", Num(1), Num(2)), Cmp("Eq", Num(2), Num(2)))
                  => lastOp.out

\* Not(And(a, b)) with a true and b false: true, as Or(Not(a), Not(b)) is
C13_Witness ==
    /\ lastOp.op = "evaluate"
    /\ lastOp.query = Not(And(Cmp("Eq", Num(5), Num(5)),
                              Or(Cmp("Eq", Num(1), Num(2)), Cmp("Eq", Num(1), Num(2)))))
    /\ lastOp.out

(***************************************************************************)
(* Two threads calling update / delete on one document.  A call is three   *)
(* steps on the file, and nothing orders the steps of two calls:           *)
(*   read()            fs::read_to_string and the parse                    *)
(*   write(), opening  fs::write creates the file, which empties it        *)
(*   write(), writing  the new text is written                            *)
(* `calls` counts the writes that were completed.                          *)
(***************************************************************************)
UpdateCall(key, value) == [ op |-> "update", key |-> key, value |-> value ]

DeleteCall(key) == [ op |-> "delete", key |-> key, value |-> JNull ]

RaceCalls ==
    { UpdateCall(<< "a", ".", "b" >>, JNum(5)), UpdateCall(KeyD, JNum(7)),
      DeleteCall(<< "a", ".", "b" >>), DeleteCall(KeyD) }

\* What a call writes, given what it read.
Apply(call, data) ==
    IF call.op = "update" THEN update_json_value(data, call.key, call.value)
    ELSE delete_json_key(data, call.key)

ThreadRead(t) ==
    /\ threads[t].pc = "idle"
    /\ LET r == read(CurDir, DocPath, TRUE)
       IN  threads' = [threads EXCEPT
              ![t].pc = CASE r.res.status = "Ok"    -> "read"
                          [] r.res.status = "Err"   -> "failed"
                          [] r.res.status = "Panic" -> "panicked",
              ![t].data = r.value,
              ![t].seen = calls]
    /\ UNCHANGED << auth, branch, dirVars, cloneArgs, lastOp, calls >>

ThreadOpen(t) ==
    /\ threads[t].pc = "read"
    /\ SetDir([CurDir EXCEPT !.wt[DocPath] = Garbage])
    /\ threads' = [threads EXCEPT ![t].pc = "opened"]
    /\ UNCHANGED << auth, branch, cloneArgs, lastOp, calls >>

ThreadWrite(t) ==
    /\ threads[t].pc = "opened"
    /\ LET w == write(CurDir, DocPath,
                      Apply(threads[t].call, threads[t].data), "ok")
       IN  /\ SetDir(w.dir)
           /\ lastOp' = [ op |-> threads[t].call.op, status |-> w.res.status,
                          err |-> w.res.err, steps |-> << >>,
                          path |-> DocPath,
                          before |-> Json(threads[t].data),
                          key |-> threads[t].call.key, thread |-> t ]
    /\ threads' = [threads EXCEPT ![t].pc = "done"]
    /\ calls' = calls + 1
    /\ UNCHANGED << auth, branch, cloneArgs >>

InitRace ==
    /\ auth = Anonymous
    /\ branch = None
    /\ \E f \in DocFiles, t \in RemoteTrees :
          LET tree == [t EXCEPT ![DocPath] = f]
          IN  InitDir([ exists |-> TRUE, workTree |-> TRUE, identity |-> TRUE,
                        unmerged |-> FALSE, head |-> tree, index |-> tree,
                        wt |-> tree ])
    /\ cloneArgs = << >>
    /\ lastOp = NoCall
    /\ calls = 0
    /\ threads \in [ ThreadIds -> { Idle(c) : c \in RaceCalls } ]

NextRace ==
    \/ \E t \in ThreadIds : ThreadRead(t)
    \/ \E t \in ThreadIds : ThreadOpen(t)
    \/ \E t \in ThreadIds : ThreadWrite(t)

SpecRace == InitRace /\ [][NextRace]_vars

(***************************************************************************)
(* Properties of concurrent updates.                                       *)
(***************************************************************************)
BothDone == \A t \in ThreadIds : threads[t].pc = "done"

\* C16: update and delete are not atomic.  When two calls on one document
\* both complete, the file holds what the last writer computed from what
\* it read (no merge): if it read before the other wrote, the other's
\* change is lost; if it read after the other's write, both changes are
\* there.
C16_LastWriteWins ==
    BothDone =>
        LET w    == lastOp.thread
            o    == CHOOSE t \in ThreadIds : t # w
            orig == head[DocPath].value
        IN  /\ wt[DocPath] = Json(Apply(threads[w].call, threads[w].data))
            /\ threads[o].seen = 0 /\ threads[o].data = orig
            /\ threads[w].seen = 0 =>
                  wt[DocPath] = Json(Apply(threads[w].call, orig))
            /\ threads[w].seen = 1 =>
                  wt[DocPath] = Json(Apply(threads[w].call,
                                           Apply(threads[o].call, orig)))

\* The lost update: on {} both threads read, then a.b = 5 and d = 7 are
\* written one after the other, and the file holds only one of them.
C16_Witness ==
    /\ BothDone
    /\ head[DocPath] = Json(JObj(EmptyMap))
    /\ threads[1].call = UpdateCall(<< "a", ".", "b" >>, JNum(5))
    /\ threads[2].call = UpdateCall(KeyD, JNum(7))
    /\ threads[1].seen = 0 /\ threads[2].seen = 0
    /\ \/ wt[DocPath] = Json(JObj([k \in {KeyD} |-> JNum(7)]))
       \/ wt[DocPath] = Json(JObj([k \in {KeyA} |-> JObj([j \in {KeyB} |-> JNum(5)])]))

(***************************************************************************)
(* find_one / find_many of a document handle, on a store holding several   *)
(* documents.                                                              *)
(***************************************************************************)
\* JsonDocument::find_one: Ok(None)
find_one(d, p, qry) == [ res |-> Ok, out |-> None ]

\* JsonDocument::find_many: a new Vec, returned as it is
find_many(d, p, qry) == [ res |-> Ok, out |-> << >> ]

FindOne(p, qry) ==
    LET r == find_one(CurDir, p, qry)
    IN  /\ lastOp' = [ op |-> "find_one", status |-> r.res.status,
                       err |-> r.res.err, steps |-> << >>, path |-> p,
                       query |-> qry, out |-> r.out ]
        /\ UNCHANGED << threads, auth, branch, dirVars, cloneArgs >>

FindMany(p, qry) ==
    LET r == find_many(CurDir, p, qry)
    IN  /\ lastOp' = [ op |-> "find_many", status |-> r.res.status,
                       err |-> r.res.err, steps |-> << >>, path |-> p,
                       query |-> qry, out |-> r.out ]
        /\ UNCHANGED << threads, auth, branch, dirVars, cloneArgs >>

\* The term that names the field `a`, and queries over it:
\* a = 5, a > 1, a = 5 and not a > 1, a = 5 or a = 1
FieldA == Field(<< 97 >>, LitNull)

FindQueries ==
    { Cmp("Eq", FieldA, Num(5)),
      Cmp("Gt", FieldA, Num(1)),
      And(Cmp("Eq", FieldA, Num(5)), Not(Cmp("Gt", FieldA, Num(1)))),
      Or(Cmp("Eq", FieldA, Num(5)), Cmp("Eq", FieldA, Num(1))) }

\* absent, {}, {a:1}, {a:5}
FindDocs ==
    { Absent, Json(JObj(EmptyMap)), Json(JObj([k \in {KeyA} |-> JNum(1)])),
      Json(JObj([k \in {KeyA} |-> JNum(5)])) }

InitFind ==
    /\ auth = Anonymous
    /\ branch = None
    /\ \E tree \in [ Paths -> FindDocs ] :
          InitDir([ exists |-> TRUE, workTree |-> TRUE, identity |-> TRUE,
                    unmerged |-> FALSE, head |-> tree, index |-> tree,
                    wt |-> tree ])
    /\ cloneArgs = << >>
    /\ lastOp = NoCall
    /\ calls = 0
    /\ threads = NoThreads

NextFind ==
    \/ \E p \in Paths, q \in FindQueries : Once /\ FindOne(p, q)
    \/ \E p \in Paths, q \in FindQueries : Once /\ FindMany(p, q)

SpecFind == InitFind /\ [][NextFind]_vars

(***************************************************************************)
(* Properties of find_one / find_many.                                     *)
(***************************************************************************)
CharOf(c) ==
    CASE c = 97 -> "a" [] c = 98 -> "b" [] c = 99 -> "c" [] c = 100 -> "d"
      [] OTHER -> "?"

FieldKey(name) == [ i \in DOMAIN name |-> CharOf(name[i]) ]

\* A term with its field name resolved against the keys of a document: the
\* value found there as a literal.  Unresolved when the key is missing or
\* holds no scalar.
Resolvable(doc, t) ==
    t.term = "Field" =>
        /\ doc.t = "obj"
        /\ FieldKey(t.name) \in DOMAIN doc.map
        /\ doc.map[FieldKey(t.name)].t \in {"null", "num"}

Resolve(doc, t) ==
    IF t.term = "Literal" THEN t
    ELSE LET v == doc.map[FieldKey(t.name)]
         IN  IF v.t = "num" THEN Literal(LitNumber(Number(PosInt(v.n))))
             ELSE Literal(LitNull)

RECURSIVE Satisfies(_, _)
Satisfies(doc, q) ==
    CASE q.c \in CmpOps ->
             /\ Resolvable(doc, q.a) /\ Resolvable(doc, q.b)
             /\ evaluate(Cmp(q.c, Resolve(doc, q.a), Resolve(doc, q.b)))
      [] q.c = "And" -> Satisfies(doc, q.l) /\ Satisfies(doc, q.r)
      [] q.c = "Or"  -> Satisfies(doc, q.l) \/ Satisfies(doc, q.r)
      [] q.c = "Not" -> ~Satisfies(doc, q.l)

\* The documents under the store whose parsed content satisfies the query.
Matching(q) ==
    { wt[p].value : p \in { x \in Paths : wt[x].kind = "json"
                                         /\ Satisfies(wt[x].value, q) } }

\* C17: find_one returns a document of the store that satisfies the query
\* whenever there is one, and find_many returns all of them.
C17_FindReturnsMatchingDocuments ==
    /\ lastOp.op = "find_one" =>
          /\ lastOp.status = "Ok"
          /\ lastOp.out.some = (Matching(lastOp.query) # {})
          /\ lastOp.out.some => lastOp.out.val \in Matching(lastOp.query)
    /\ lastOp.op = "find_many" =>
          /\ lastOp.status = "Ok"
          /\ { lastOp.out[i] : i \in DOMAIN lastOp.out } = Matching(lastOp.query)

(***************************************************************************)
(* A store, anonymous or with a token, constructed over a path that does   *)
(* not exist yet, and nothing but initialize called on it, any number of   *)
(* times.                                                                  *)
(***************************************************************************)
InitFresh ==
    /\ auth \in { a \in GitAuth : ~a.user.some /\ ~a.password.some }
    /\ branch \in {None, Some(BranchText)}
    /\ InitDir(AbsentDir)
    /\ cloneArgs = << >>
    /\ lastOp = NoCall
    /\ calls = 0
    /\ threads = NoThreads

NextFresh == Initialize

SpecFresh == InitFresh /\ [][NextFresh]_vars

\* C20: whenever initialize returns success, the directory is a valid
\* checkout and the commit author's user.name and user.email are set in
\* it, also when the success comes from the path that finds the directory
\* already valid.
C20_SuccessImpliesIdentity ==
    (lastOp.op = "initialize" /\ lastOp.status = "Ok")
        => (dirExists /\ workTree /\ identity)

\* The calls of initialize in which the file system and git do all they
\* are asked (the probe may or may not run).
Cooperative ==
    { in \in InitInputs :
        in.existsOk /\ in.rm.ok /\ in.mkOk /\ in.cloneOk /\ in.cfgOk }

FailedAtClone ==
    /\ lastOp.op = "initialize" /\ lastOp.status = "Err"
    /\ Ran(lastOp.steps, "clone")
    /\ ~lastOp.steps[Len(lastOp.steps)].ok
    /\ lastOp.steps[Len(lastOp.steps)].step = "clone"

\* C21: a failed initialize never blocks a later one.  In every state that
\* initialize calls, failed or not, lead to, a call in which existence
\* test, removal, creation, clone and config all succeed returns success
\* and leaves a valid checkout; after a call that failed in its clone the
\* directory is there and is no checkout, and the next such call probes
\* it, removes it, creates it and clones again.
C21_FailedInitializeNeverBlocks ==
    /\ \A in \in Cooperative :
          LET r == initialize(CurDir, in)
          IN  /\ r.res.status = "Ok"
              /\ r.dir.exists /\ r.dir.workTree
    /\ FailedAtClone =>
          /\ dirExists /\ ~workTree
          /\ \A in \in Cooperative :
                StepNames(initialize(CurDir, in).steps) =
                    << "exists", "rev_parse", "remove_dir_all",
                       "create_dir_all", "clone", "config" >>

\* The empty directory a failed clone left behind was probed, removed and
\* cloned into a checkout.
C21_Witness ==
    /\ lastOp.op = "initialize" /\ lastOp.status = "Ok"
    /\ lastOp.pre = "invalid"
    /\ lastOp.had = EmptyTree
    /\ Ran(lastOp.steps, "remove_dir_all") /\ Ran(lastOp.steps, "clone")
    /\ dirExists /\ workTree /\ identity

=============================================================================
